---- MODULE Spec2Model ----
(***************************************************************************)
(* Resumable profile-collection loop of the LinkedIn alumni scrapers.      *)
(*                                                                         *)
(* Three script variants share one design and are modelled side by side:   *)
(*   "details"  alumni_details_scraper.py   (per-section vision calls)     *)
(*   "people"   people_alumni_scraper.py    (one whole-page vision call)   *)
(*   "profile"  alumni_profile_scraper.py   (structural extraction only)   *)
(*                                                                         *)
(* The output store is a CSV file written through a buffered file object:  *)
(* `disk` is what the operating system holds, `buf` what the file object   *)
(* still holds.  A process kill loses `buf`.                               *)
(***************************************************************************)
EXTENDS Naturals, Sequences, FiniteSets, TLC

VARIABLES
    variant,    \* which script is being run
    roster,     \* rows of the input roster file, in file order
    exists,     \* the output store file exists
    disk,       \* lines of the output store that reached the file
    buf,        \* lines still held by the file object's buffer
    pc,         \* position of the process inside main()
    status,     \* how the latest run ended, or "running"
    done,       \* the in-memory processed set
    i,          \* index of the roster row the for-loop is at
    page,       \* what the site and the services do for the current profile
    pdata,      \* the dict returned for the current profile
    row,        \* the dict handed to writer.writerow
    navs,       \* history: driver.get calls issued for profiles in this run
    appended,   \* history: rows handed to the store in this run
    flushes,    \* history: flush() calls that returned in this run
    disk0,      \* history: the store as the run found it
    afterComplete,  \* history: the run before this one walked the whole roster
    drv,        \* the browser session: logged in, contact modal open
    scroll,     \* the progressive scroll loop, studied on its own
    parse,      \* the parsing of one vision reply, studied on its own
    conn,       \* the cleaning of one connections cell, studied on its own
    norm        \* the cleaning of a store and its child tables, studied on its own

\* State of the functions that are studied apart from main().
unitVars == <<scroll, parse, conn, norm>>

vars == <<variant, roster, exists, disk, buf, pc, status, done, i, page,
          pdata, row, navs, appended, flushes, disk0, afterComplete, drv, unitVars>>

(***************************************************************************)
(* Bounds                                                                  *)
(***************************************************************************)
MaxRoster == 2

\* Tallest page the scroll loop is started on, in half scroll steps, and
\* the most often a lazily loading page grows.
MaxScreens == 8
MaxGrow == 2

\* Longest connections cell built from the alphabet.
MaxConnLen == 3

\* Rows of the store that is cleaned.
MaxRaw == 2

(***************************************************************************)
(* Values                                                                  *)
(***************************************************************************)
Variants == {"details", "people", "profile"}

\* Profile identifiers of the roster.  The first two are real profile URLs;
\* "NOT FOUND" is the resolver's sentinel and "nan" an absent cell.
ValidUrls == {"http_u1", "http_u2"}
Urls      == ValidUrls \cup {"NOT FOUND", "nan"}

\* url.startswith("http")
StartsWithHttp(u) == u \in ValidUrls

\* A roster row: identity (firstname stands for firstname, lastname and
\* program, which the loop only copies) and the linkedin_profile cell.
Entry(f, u) == [firstname |-> f, linkedin_profile |-> u]

\* Two people resolved to the same profile, a third profile, a person not
\* found and a person whose cell is absent.
Entries == {Entry("ann", "http_u1"), Entry("bob", "http_u1"), Entry("bob", "http_u2"),
            Entry("ann", "NOT FOUND"), Entry("bob", "nan")}

Rosters == UNION {[1..n -> Entries] : n \in 1..MaxRoster}

EmptyDict == [k \in {} |-> ""]

\* d.update(e) / {**d, **e}: the right operand wins.
Update(d, e) ==
    [k \in (DOMAIN d) \cup (DOMAIN e) |-> IF k \in DOMAIN e THEN e[k] ELSE d[k]]

(***************************************************************************)
(* Python values that travel through the dicts: str and list.              *)
(***************************************************************************)
Str(s)  == [t |-> "str",  s |-> s,  items |-> <<>>]
Lst(xs) == [t |-> "list", s |-> "", items |-> xs]

\* A parsed JSON document: an object (a dict) or anything else.
Obj(d)  == [t |-> "obj", d |-> d]
NonObj  == [t |-> "scalar", d |-> EmptyDict]

RECURSIVE JoinWith(_, _)
\* sep.join(xs)
JoinWith(xs, sep) ==
    IF xs = <<>> THEN ""
    ELSE IF Len(xs) = 1 THEN xs[1]
    ELSE xs[1] \o sep \o JoinWith(Tail(xs), sep)

\* "; ".join(xs)
Join(xs) == JoinWith(xs, "; ")

RECURSIVE Find(_, _, _)
\* Index of the first occurrence of the one-character string c in s at or
\* after position k, or 0.
Find(s, c, k) ==
    IF k > Len(s) THEN 0
    ELSE IF SubSeq(s, k, k) = c THEN k
    ELSE Find(s, c, k + 1)

\* The whitespace characters of the model's texts.
Whitespace == {" ", "\n"}

RECURSIVE LStrip(_)
LStrip(s) ==
    IF Len(s) > 0 /\ SubSeq(s, 1, 1) \in Whitespace
    THEN LStrip(SubSeq(s, 2, Len(s))) ELSE s

RECURSIVE RStrip(_)
RStrip(s) ==
    IF Len(s) > 0 /\ SubSeq(s, Len(s), Len(s)) \in Whitespace
    THEN RStrip(SubSeq(s, 1, Len(s) - 1)) ELSE s

\* s.strip()
Strip(s) == RStrip(LStrip(s))

\* The en dash of the "Title @ Company - Dates" convention is written "~"
\* in the model's strings; "-" is the plain hyphen.
EnDash == "~"

(***************************************************************************)
(* Columns                                                                 *)
(***************************************************************************)
RosterCols == {"firstname", "linkedin_profile"}

HeaderCols == {"current_title", "current_company", "second_title",
               "second_company", "third_title", "third_company",
               "location", "connections", "headline"}

ListCols == {"experience", "education", "licenses", "volunteering"}

DomCols == {"profile_pic", "email"}

\* alumni_details_scraper.py / people_alumni_scraper.py: out_cols
out_cols == RosterCols \cup HeaderCols \cup DomCols \cup ListCols

\* alumni_profile_scraper.py: fieldnames of the DictWriter
profile_cols == RosterCols \cup {"current_title", "current_company", "location",
                                 "connections", "headline", "profile_pic", "email"}

fieldnames(v) == IF v = "profile" THEN profile_cols ELSE out_cols

\* SECTION_REGEX.items(), in order
Sections == <<"experience", "education", "licenses", "volunteering">>

(***************************************************************************)
(* The site and the services, per profile                                  *)
(***************************************************************************)
\* What the image-understanding service does with a call:
\*   "error"     the request raises (network, service)
\*   "garbage"   text that fails every parsing step
\*   "object"    JSON of the shape the prompt asked for
\*   "scalar"    text that parses to a JSON value that is not an object
\*   "extrakey"  the object asked for, plus a key that is no column
\*   "withmail"  the object asked for, plus email and profile_pic keys
\*   "noat"      the object asked for, its first experience item without "@"
\*   "dictitem"  the object asked for, the second item of its experience
\*               and education lists a JSON object instead of a string
\*   "listhdr"   the object asked for, its headline a list of strings
ReplyKinds == {"error", "garbage", "object", "scalar", "extrakey", "withmail",
               "noat", "dictitem", "listhdr"}

\* A list item that is no str (a dict); str() of it is "{}".
NonStrItem == "<dict>"

\* What the page offers to the contact-info lookup:
\*   "nolink"        the contact-info control is absent
\*   "mail"          modal appears, carries a mailto link, is dismissed
\*   "nomail"        modal appears without mailto link, is dismissed
\*   "modaltimeout"  control clicked, modal never appears
\*   "intercepted"   the click on the control is intercepted by an overlay;
\*                   a scripted click opens the modal, which carries a mailto
\*                   link and is dismissed
\*   "nodismiss"     modal appears with a mailto link but without the
\*                   Dismiss button
ContactKinds == {"nolink", "mail", "nomail", "modaltimeout", "intercepted", "nodismiss"}

StructuralPic   == "dom.png"
StructuralEmail == "a@x.com"
VisionPic       == "vis.png"
VisionEmail     == "b@y.com"

\* The JSON object a prompt asks for, filled in by the service.
Expected(prompt) ==
    LET hdr == [k \in HeaderCols |-> Str("H")]
        exp == [k \in {"experience"} |-> Lst(<<"Eng @ Acme ~ 2019", "Dev @ Bolt ~ 2015">>)]
        edu == [k \in {"education"} |-> Lst(<<"MIT", "NYU">>)]
        lic == [k \in {"licenses"} |-> Lst(<<"PMP">>)]
        vol == [k \in {"volunteering"} |-> Lst(<<"Red Cross">>)]
    IN CASE prompt = "header"       -> hdr
         [] prompt = "experience"   -> exp
         [] prompt = "education"    -> edu
         [] prompt = "licenses"     -> lic
         [] prompt = "volunteering" -> vol
         [] OTHER -> Update(hdr, Update(exp, Update(edu, Update(lic, vol))))

\* The object a reply that parses to an object carries.
Reply(reply, prompt) ==
    LET e == Expected(prompt)
        over == CASE reply = "noat" ->
                       [k \in {"experience"} |-> Lst(<<"Freelance", "Dev @ Bolt ~ 2015">>)]
                  [] reply = "dictitem" ->
                       [k \in {"experience", "education"} |->
                          IF k = "experience" THEN Lst(<<"Eng @ Acme ~ 2019", NonStrItem>>)
                          ELSE Lst(<<"MIT", NonStrItem>>)]
                  [] reply = "listhdr" -> [k \in {"headline"} |-> Lst(<<"a", "b">>)]
                  [] OTHER -> EmptyDict
    IN CASE reply = "extrakey" -> Update(e, [k \in {"name"} |-> Str("V")])
         [] reply = "withmail" ->
               Update(e, [k \in DomCols |-> IF k = "email" THEN Str(VisionEmail)
                                             ELSE Str(VisionPic)])
         [] OTHER -> Update(e, [k \in DOMAIN over \cap DOMAIN e |-> over[k]])

\* Mutant: a failed call returns None instead of {}.
call_vision_none(reply, prompt) ==
    IF reply \in {"error", "garbage", "scalar"} THEN NonObj ELSE Obj(Reply(reply, prompt))

\* call_vision: the value it returns (it raises nothing: every exception,
\* the final ValueError included, is turned into {}).
call_vision(reply, prompt) ==
    CASE reply \in {"error", "garbage"} -> Obj(EmptyDict)
      [] reply = "scalar" -> NonObj
      [] OTHER -> Obj(Reply(reply, prompt))

\* grab_dom_bits of alumni_details_scraper.py.  exc is the exception that
\* leaves the function, "none" if it returns out; modal says whether the
\* contact modal is open when control leaves the function.  An intercepted
\* click is repeated through a script; a missing Dismiss button raises
\* NoSuchElementException, which the outer handler takes for a missing link.
grab_dom_bits(pic, contact, extract_contact_info) ==
    LET out0 == [k \in DomCols |-> IF k = "profile_pic" THEN Str(pic) ELSE Str("")]
        out1 == [out0 EXCEPT !["email"] = Str(StructuralEmail)]
    IN CASE ~extract_contact_info \/ contact = "nolink" ->
                [exc |-> "none", out |-> out0, modal |-> FALSE]
         [] contact = "modaltimeout" ->
                [exc |-> "TimeoutException", out |-> out0, modal |-> FALSE]
         [] contact \in {"mail", "intercepted"} ->
                [exc |-> "none", out |-> out1, modal |-> FALSE]
         [] contact = "nodismiss" ->
                [exc |-> "none", out |-> out1, modal |-> TRUE]
         [] OTHER -> [exc |-> "none", out |-> out0, modal |-> FALSE]

\* grab_dom_bits of people_alumni_scraper.py: the contact lookup is always
\* made, the click is not repeated, and a missing Dismiss button is passed over.
grab_dom_bits_people(pic, contact) ==
    IF contact = "intercepted"
    THEN [exc |-> "WebDriverException", modal |-> FALSE,
          out |-> [k \in DomCols |-> IF k = "profile_pic" THEN Str(pic) ELSE Str("")]]
    ELSE grab_dom_bits(pic, contact, TRUE)

\* The positional title/company pair an experience item yields:
\* item.split("@", 1), rest.split(EnDash, 1)[0], both stripped; ok is FALSE
\* when the unpacking raises (no "@" in the item).
SplitItem(item) ==
    LET at   == Find(item, "@", 1)
        rest == SubSeq(item, at + 1, Len(item))
        dash == Find(rest, EnDash, 1)
        comp == IF dash = 0 THEN rest ELSE SubSeq(rest, 1, dash - 1)
    IN IF at = 0 THEN [ok |-> FALSE, title |-> "", company |-> ""]
       ELSE [ok |-> TRUE, title |-> Strip(SubSeq(item, 1, at - 1)), company |-> Strip(comp)]

PairKeys == <<<<"current_title", "current_company">>,
              <<"second_title", "second_company">>,
              <<"third_title", "third_company">>>>

RECURSIVE Positional(_, _, _)
\* for idx, item in enumerate(exp_list[:3]): fill the idx-th pair of data.
Positional(data, exp_list, idx) ==
    IF idx > Len(exp_list) \/ idx > 3 THEN data
    ELSE LET sp == SplitItem(exp_list[idx])
             d1 == IF sp.ok
                   THEN Update(data, [k \in {PairKeys[idx][1], PairKeys[idx][2]} |->
                                        IF k = PairKeys[idx][1] THEN Str(sp.title)
                                        ELSE Str(sp.company)])
                   ELSE data
         IN Positional(d1, exp_list, idx + 1)

\* One iteration of the section loop of scrape_profile (details).
SectionStep(data, sec_name, reply) ==
    LET payload == call_vision(reply, sec_name)
        d       == payload.d
        isList  == sec_name \in DOMAIN d /\ d[sec_name].t = "list"
        items   == d[sec_name].items
        nonstr  == \E k \in DOMAIN items : items[k] = NonStrItem
        strs    == [k \in DOMAIN items |-> IF items[k] = NonStrItem THEN "{}" ELSE items[k]]
    IN IF payload.t # "obj" THEN data    \* payload.get raises, caught and logged
       ELSE IF isList /\ sec_name = "experience"
            \* "; ".join(exp_list) raises TypeError on an item that is no str:
            \* caught by the handler of the section, after the pairs were filled
            THEN IF nonstr THEN Positional(data, items, 1)
                 ELSE Update(Positional(data, items, 1),
                             [d EXCEPT ![sec_name] = Str(Join(items))])
       ELSE IF isList THEN Update(data, [d EXCEPT ![sec_name] = Str(Join(strs))])
       ELSE Update(data, d)

RECURSIVE SectionLoop(_, _, _)
SectionLoop(data, k, reply) ==
    IF k > Len(Sections) THEN data
    ELSE SectionLoop(SectionStep(data, Sections[k], reply), k + 1, reply)

\* scrape_profile of alumni_details_scraper.py on page p.
scrape_profile(p) ==
    LET hv   == call_vision(p.hv, "header")
        data == SectionLoop(hv.d, 1, p.sv)
        dom  == grab_dom_bits(p.pic, p.contact, p.ask)
    IN IF p.head = "timeout"
       THEN [exc |-> "TimeoutException", data |-> EmptyDict, modal |-> FALSE]
       ELSE IF hv.t # "obj" THEN [exc |-> "TypeError", data |-> EmptyDict, modal |-> FALSE]
       ELSE IF dom.exc # "none" THEN [exc |-> "none", data |-> data, modal |-> dom.modal]
       ELSE [exc |-> "none", data |-> Update(data, dom.out), modal |-> dom.modal]

\* The list flattening of scrape_profile of people_alumni_scraper.py.
FlattenLists(vis) ==
    [k \in DOMAIN vis |-> IF k \in ListCols /\ vis[k].t = "list"
                          THEN Str(Join(vis[k].items)) ELSE vis[k]]

\* scrape_profile of people_alumni_scraper.py on page p.
scrape_profile_people(p) ==
    LET dom == grab_dom_bits_people(p.pic, p.contact)
        vis == call_vision(p.hv, "page")
        \* "; ".join(vis[key]) raises TypeError on an item that is no str
        nonstr == \E k \in ListCols \cap DOMAIN vis.d :
                     /\ vis.d[k].t = "list"
                     /\ \E j \in DOMAIN vis.d[k].items : vis.d[k].items[j] = NonStrItem
    IN IF p.head = "timeout"
       THEN [exc |-> "TimeoutException", data |-> EmptyDict, modal |-> FALSE]
       ELSE IF dom.exc # "none" THEN [exc |-> dom.exc, data |-> EmptyDict, modal |-> dom.modal]
       ELSE IF vis.t # "obj" \/ nonstr
            THEN [exc |-> "TypeError", data |-> EmptyDict, modal |-> dom.modal]
       ELSE [exc |-> "none", data |-> Update(dom.out, FlattenLists(vis.d)),
             modal |-> dom.modal]

\* grab_profile_data of alumni_profile_scraper.py: structural lookups only,
\* each handling its own timeout or missing element; an intercepted click
\* on the contact control is handled by nothing.
grab_profile_data(p) ==
    LET top == IF p.head = "ok" THEN "T" ELSE ""
    IN [exc |-> IF p.contact = "intercepted" THEN "WebDriverException" ELSE "none",
        modal |-> p.contact = "nodismiss",
        data |-> [k \in profile_cols \ RosterCols |->
                    CASE k \in {"headline", "location", "connections"} -> Str(top)
                      [] k = "profile_pic" -> Str(IF p.head = "ok" THEN p.pic ELSE "")
                      [] k = "email" -> Str(IF p.contact \in {"mail", "nodismiss"}
                                            THEN StructuralEmail ELSE "")
                      [] OTHER -> Str("E")]]

\* What the contact lookup does to the page, in program order: "click" on
\* the contact control, "open" when the modal appears, "close" when the
\* Dismiss button is clicked.  Only the details script repeats a click.
ContactSteps(v, p) ==
    CASE p.contact = "nolink" \/ (v = "details" /\ ~p.ask) -> <<>>
      [] p.contact = "modaltimeout" -> <<"click">>
      [] p.contact = "nodismiss" -> <<"click", "open">>
      [] p.contact = "intercepted" ->
            IF v = "details" THEN <<"click", "click", "open", "close">> ELSE <<"click">>
      [] OTHER -> <<"click", "open", "close">>

\* Mutant: the people script looks the contact data up before it takes
\* the screenshot.
StepsContactFirst(v, p) ==
    IF p.head = "timeout" THEN <<>>
    ELSE IF v = "people" THEN ContactSteps(v, p) \o <<"shot">>
    ELSE IF v = "details" THEN <<"shot">> \o ContactSteps(v, p)
    ELSE ContactSteps(v, p)

\* The screenshots ("shot") and contact steps of the per-profile work on
\* page p, in program order.  The details script takes one screenshot for
\* the header and one per section before grab_dom_bits; the people script
\* one of the whole page before grab_dom_bits; the profile script none.
Steps(v, p) ==
    CASE v = "details" ->
            IF p.head = "timeout" THEN <<>>
            ELSE IF call_vision(p.hv, "header").t # "obj" THEN <<"shot">>
            ELSE <<"shot">> \o [k \in 1..Len(Sections) |-> "shot"] \o ContactSteps(v, p)
      [] v = "people" ->
            IF p.head = "timeout" THEN <<>> ELSE <<"shot">> \o ContactSteps(v, p)
      [] OTHER -> ContactSteps(v, p)

\* The per-profile work of main(): the call made after driver.get returned.
Extract(v, p) ==
    CASE v = "details" -> scrape_profile(p)
      [] v = "people"  -> scrape_profile_people(p)
      [] OTHER         -> grab_profile_data(p)

\* Mutant: the per-profile work is not wrapped in a try.
CaughtNothing(v) == {}

\* The exception classes the try around the per-profile work catches.
Caught(v) == IF v = "profile" THEN {} ELSE {"TimeoutException", "WebDriverException"}

(***************************************************************************)
(* The output store                                                        *)
(***************************************************************************)
\* A line of the store.  Of a row only the roster cells are kept: no
\* script reads any other cell back.  whole says that the line is there
\* to its end, line terminator included.
Header == [kind |-> "header", firstname |-> "firstname",
           linkedin_profile |-> "linkedin_profile", whole |-> TRUE]

LineOf(cells) == [kind |-> "row", firstname |-> cells["firstname"],
                  linkedin_profile |-> cells["linkedin_profile"], whole |-> TRUE]

RowLines(d) == SelectSeq(d, LAMBDA l : l.kind = "row")

\* Cells pandas reads as missing.
NaCells == {"", "nan"}

\* Mutant: the processed set is not read back from the store.
DoneFromStoreForgets(d) == {}

\* set(pd.read_csv(OUT_CSV)["linkedin_profile"].dropna()): the cell of every
\* line after the header, torn lines included (a short row is padded).
DoneFromStore(d) ==
    {d[k].linkedin_profile : k \in {j \in 1..Len(d) : d[j].kind = "row"}} \ NaCells

\* Mutant: a long line is passed to the file in pieces, the first of which
\* is all that is there until the flush.
FileWriteTorn(d, b, line, big) ==
    IF big THEN [disk |-> d \o b \o <<[line EXCEPT !.whole = FALSE]>>, buf |-> <<>>]
    ELSE [disk |-> d, buf |-> Append(b, line)]

\* What a write of one line through the file object does.  A line at least
\* as long as the object's buffer (big) is passed to the file at once,
\* together with what the buffer held; a shorter one stays in the buffer.
FileWrite(d, b, line, big) ==
    IF big THEN [disk |-> d \o b \o <<line>>, buf |-> <<>>]
    ELSE [disk |-> d, buf |-> Append(b, line)]

\* Mutant: the flush is missing.
FileFlushKeeps(d, b) == [disk |-> d, buf |-> b]

\* Mutant: the file was opened for writing, not for appending.
FileFlushTruncates(d, b) == [disk |-> b, buf |-> <<>>]

\* fout.flush()
FileFlush(d, b) == [disk |-> d \o b, buf |-> <<>>]

\* csv.DictWriter(fout, fieldnames=...): restval, and the keys it rejects.
restval == ""

WrongFields(v, rowdict) == (DOMAIN rowdict) \ fieldnames(v)

\* The text the csv writer puts in a cell: a str as it is, anything else
\* through str().
Cell(val) ==
    IF val.t = "str" THEN val.s
    ELSE "[" \o JoinWith([k \in DOMAIN val.items |-> "'" \o val.items[k] \o "'"], ", ") \o "]"

Cells(v, rowdict) ==
    [c \in fieldnames(v) |-> IF c \in DOMAIN rowdict THEN Cell(rowdict[c]) ELSE restval]

\* {**r._asdict(), **pdata}
RowDict(r, pd) == Update([k \in RosterCols |-> Str(r[k])], pd)

(***************************************************************************)
(* The roster as the loop walks it                                         *)
(***************************************************************************)
RECURSIVE DropDuplicates(_)
\* DataFrame.drop_duplicates(): a row equal to an earlier row is dropped.
DropDuplicates(rs) ==
    IF rs = <<>> THEN <<>>
    ELSE LET init == DropDuplicates(SubSeq(rs, 1, Len(rs) - 1))
             last == rs[Len(rs)]
         IN IF \E k \in 1..Len(init) : init[k] = last THEN init ELSE Append(init, last)

\* alumni_profile_scraper.py filters the sentinel out and drops duplicate
\* rows before the loop; an absent cell compares unequal to the sentinel
\* and stays.  The other two scripts walk the roster as read.
Src(v, rs) ==
    IF v = "profile"
    THEN DropDuplicates(SelectSeq(rs, LAMBDA r : r.linkedin_profile # "NOT FOUND"))
    ELSE rs

\* The test at the head of the loop body.
Skip(v, url, d) ==
    IF v = "profile" THEN url \in d
    ELSE ~StartsWithHttp(url) \/ url \in d

\* done.add(url): alumni_profile_scraper.py has no such statement.
Marked(v, d, url) == IF v = "profile" THEN d ELSE d \cup {url}

(***************************************************************************)
(* Pages                                                                   *)
(***************************************************************************)
NoPage == [nav |-> "none", head |-> "none", hv |-> "none", sv |-> "none",
           pic |-> "", contact |-> "none", ask |-> FALSE]

NavExc == [NoPage EXCEPT !.nav = "exc"]

HeadTimeout == [NoPage EXCEPT !.nav = "ok", !.head = "timeout"]

\* Header-call and section-call behaviours of one profile, with what the
\* page offers the structural lookups: <<hv, sv, pic, contact, ask>>.  Each
\* reply kind on every call; a section reply that is no object after a good
\* header; each structural case under a service that never parses, and
\* the modal that never appears under the two replies that carry values.
DetailCases ==
    {<<k, k, StructuralPic, "mail", TRUE>> : k \in ReplyKinds}
    \cup {<<"object", "scalar", StructuralPic, "mail", TRUE>>}
    \cup {<<"garbage", "garbage", StructuralPic, "nomail", TRUE>>,
          <<"garbage", "garbage", StructuralPic, "modaltimeout", TRUE>>,
          <<"garbage", "garbage", StructuralPic, "intercepted", TRUE>>,
          <<"garbage", "garbage", StructuralPic, "nodismiss", TRUE>>,
          <<"garbage", "garbage", "", "nolink", TRUE>>,
          <<"garbage", "garbage", StructuralPic, "nolink", FALSE>>}
    \cup {<<k, k, StructuralPic, "modaltimeout", TRUE>> : k \in {"object", "withmail"}}

Loaded(c) == [nav |-> "ok", head |-> "ok", hv |-> c[1], sv |-> c[2],
              pic |-> c[3], contact |-> c[4], ask |-> c[5]]

\* What driver.get(url) and the calls after it can meet.  A cell that is
\* no URL makes driver.get raise.
Pages(v, url) ==
    IF ~StartsWithHttp(url) THEN {NavExc}
    ELSE CASE v = "details" ->
                {NavExc, HeadTimeout} \cup {Loaded(c) : c \in DetailCases}
           [] v = "people" ->
                {NavExc, HeadTimeout}
                \cup {Loaded(c) : c \in {d \in DetailCases : d[1] = d[2] /\ d[5]}}
           [] OTHER ->
                {NavExc, HeadTimeout}
                \cup {Loaded(<<"none", "none", c[3], c[4], c[5]>>) :
                        c \in {d \in DetailCases : d[1] = "garbage" /\ d[5]}}

(***************************************************************************)
(* main()                                                                  *)
(***************************************************************************)
src == Src(variant, roster)

url == src[i].linkedin_profile

\* Whether the store's file object is closed (and so flushed) when an
\* exception leaves main(): the finally clause of the details and people
\* scripts does it; the profile script leaves it to interpreter exit.
ClosesOnError(v) == IF v = "profile" THEN BOOLEAN ELSE {TRUE}

\* The browser before login and after driver.quit() or process exit.
NoDriver == [authed |-> FALSE, modal |-> FALSE]

\* The scroll loop when it is not under study.
NoScroll == [pc |-> "off"]

\* No vision reply under study.
NoParse == [pc |-> "off"]

\* No connections cell under study.
NoConn == [pc |-> "off"]

\* No store under cleaning.
NoNorm == [pc |-> "off"]

\* The process ends: st says how, closes whether the file object was closed.
EndRun(st, closes) ==
    /\ pc' = "idle"
    /\ status' = st
    /\ disk' = IF closes THEN FileFlush(disk, buf).disk ELSE disk
    /\ buf' = <<>>
    /\ done' = {}
    /\ i' = 1
    /\ page' = NoPage
    /\ pdata' = EmptyDict
    /\ row' = EmptyDict
    /\ drv' = NoDriver
    /\ UNCHANGED <<unitVars, variant, roster, exists, navs, appended, flushes, disk0,
                   afterComplete>>

Init ==
    /\ variant \in Variants
    /\ roster \in Rosters
    /\ exists = FALSE
    /\ disk = <<>>
    /\ buf = <<>>
    /\ pc = "idle"
    /\ status = "none"
    /\ done = {}
    /\ i = 1
    /\ page = NoPage
    /\ pdata = EmptyDict
    /\ row = EmptyDict
    /\ navs = 0
    /\ appended = 0
    /\ flushes = 0
    /\ disk0 = <<>>
    /\ afterComplete = FALSE
    /\ drv = NoDriver
    /\ scroll = NoScroll
    /\ parse = NoParse
    /\ conn = NoConn
    /\ norm = NoNorm

\* The script is started.
StartRun ==
    /\ pc = "idle"
    /\ pc' = "resume"
    /\ status' = "running"
    /\ afterComplete' = (status = "complete")
    /\ disk0' = disk
    /\ navs' = 0
    /\ appended' = 0
    /\ flushes' = 0
    /\ UNCHANGED <<unitVars, drv, variant, roster, exists, disk, buf, done, i, page, pdata, row>>

\* Build the processed set from the store.
Resume ==
    /\ pc = "resume"
    /\ ~(exists /\ disk = <<>>)
    /\ done' = IF exists THEN DoneFromStore(disk) ELSE {}
    /\ pc' = "open"
    /\ UNCHANGED <<unitVars, drv, variant, roster, exists, disk, buf, status, i, page, pdata, row,
                   navs, appended, flushes, disk0, afterComplete>>

\* pd.read_csv raises EmptyDataError on a file without content.
ResumeFail ==
    /\ pc = "resume"
    /\ exists /\ disk = <<>>
    /\ EndRun("EmptyDataError", FALSE)

\* Mutant: the header is written on every start.
new_file_always(e, d) == TRUE

\* new_file = not OUT_CSV.exists() or OUT_CSV.stat().st_size == 0
new_file(e, d) == ~e \/ d = <<>>

\* Open the store for append; write the header into a new or empty file.
OpenStore ==
    /\ pc = "open"
    /\ buf' = IF new_file(exists, disk) THEN <<Header>> ELSE <<>>
    /\ exists' = TRUE
    /\ pc' = "login"
    /\ UNCHANGED <<unitVars, drv, variant, roster, disk, status, done, i, page, pdata, row,
                   navs, appended, flushes, disk0, afterComplete>>

\* linkedin_login returns: the search box of the signed-in site was seen.
\* Mutant: a failed login is logged and the loop entered all the same.
LoginFailIgnored ==
    /\ pc = "login"
    /\ pc' = "loop"
    /\ UNCHANGED <<unitVars, drv, variant, roster, exists, disk, buf, status, done, i, page,
                   pdata, row, navs, appended, flushes, disk0, afterComplete>>

LoginOK ==
    /\ pc = "login"
    /\ pc' = "loop"
    /\ drv' = [drv EXCEPT !.authed = TRUE]
    /\ UNCHANGED <<unitVars, variant, roster, exists, disk, buf, status, done, i, page, pdata, row,
                   navs, appended, flushes, disk0, afterComplete>>

\* A wait of linkedin_login times out.
LoginFail ==
    /\ pc = "login"
    /\ \E c \in ClosesOnError(variant) : EndRun("LoginTimeout", c)

\* The loop passes over a row.
LoopSkip ==
    /\ pc = "loop"
    /\ i <= Len(src)
    /\ Skip(variant, url, done)
    /\ i' = i + 1
    /\ page' = NoPage
    /\ row' = EmptyDict
    /\ UNCHANGED <<unitVars, drv, variant, roster, exists, disk, buf, pc, status, done, pdata,
                   navs, appended, flushes, disk0, afterComplete>>

\* The loop takes a row up.
LoopEnter ==
    /\ pc = "loop"
    /\ i <= Len(src)
    /\ ~Skip(variant, url, done)
    /\ pc' = "nav"
    /\ page' = NoPage
    /\ row' = EmptyDict
    /\ UNCHANGED <<unitVars, drv, variant, roster, exists, disk, buf, status, done, i, pdata,
                   navs, appended, flushes, disk0, afterComplete>>

\* Roster exhausted: quit the driver, close the store.
Finish ==
    /\ pc = "loop"
    /\ i > Len(src)
    /\ EndRun("complete", TRUE)

\* driver.get(url)
Navigate ==
    /\ pc = "nav"
    /\ \E p \in Pages(variant, url) :
          /\ page' = p
          /\ drv' = [drv EXCEPT !.modal = IF p.nav = "ok" THEN FALSE ELSE @]
    /\ navs' = navs + 1
    /\ pc' = "scrape"
    /\ UNCHANGED <<unitVars, variant, roster, exists, disk, buf, status, done, i, pdata, row,
                   appended, flushes, disk0, afterComplete>>

\* The exception the per-profile work ends with, "none" if it returns.
Raised == IF page.nav = "exc" THEN "WebDriverException" ELSE Extract(variant, page).exc

\* The per-profile work returns, or raises what the loop catches.
Scrape ==
    /\ pc = "scrape"
    /\ Raised \in Caught(variant) \cup {"none"}
    /\ pdata' = IF Raised = "none" THEN Extract(variant, page).data ELSE EmptyDict
    /\ drv' = [drv EXCEPT !.modal = IF page.nav = "ok" THEN Extract(variant, page).modal ELSE @]
    /\ pc' = "write"
    /\ UNCHANGED <<unitVars, variant, roster, exists, disk, buf, status, done, i, page, row,
                   navs, appended, flushes, disk0, afterComplete>>

\* The per-profile work raises what the loop does not catch.
ScrapeRaise ==
    /\ pc = "scrape"
    /\ Raised \notin Caught(variant) \cup {"none"}
    /\ \E c \in ClosesOnError(variant) : EndRun(Raised, c)

\* writer.writerow(...)
WriteRow ==
    /\ pc = "write"
    /\ WrongFields(variant, RowDict(src[i], pdata)) = {}
    /\ LET cells == Cells(variant, RowDict(src[i], pdata))
       IN /\ row' = cells
          /\ \E big \in BOOLEAN :
                LET w == FileWrite(disk, buf, LineOf(cells), big)
                IN disk' = w.disk /\ buf' = w.buf
    /\ appended' = appended + 1
    /\ pdata' = EmptyDict
    /\ pc' = "flush"
    /\ UNCHANGED <<unitVars, drv, variant, roster, exists, status, done, i, page,
                   navs, flushes, disk0, afterComplete>>

\* DictWriter raises ValueError on a key that is no field name.
WriteRejected ==
    /\ pc = "write"
    /\ WrongFields(variant, RowDict(src[i], pdata)) # {}
    /\ \E c \in ClosesOnError(variant) : EndRun("ValueError", c)

\* The store cannot be written (device full, file gone): writerow raises
\* OSError and nothing of the row is kept.  The exception leaves main();
\* the close of the file object on the way out may succeed or fail.
WriteFail ==
    /\ pc = "write"
    /\ WrongFields(variant, RowDict(src[i], pdata)) = {}
    /\ \E c \in BOOLEAN : EndRun("OSError", c)

\* fout.flush()
Flush ==
    /\ pc = "flush"
    /\ LET f == FileFlush(disk, buf) IN disk' = f.disk /\ buf' = f.buf
    /\ flushes' = flushes + 1
    /\ pc' = "mark"
    /\ UNCHANGED <<unitVars, drv, variant, roster, exists, status, done, i, page, pdata, row,
                   navs, appended, disk0, afterComplete>>

\* Mutant: a failed flush is swallowed, the row dropped, the loop goes on.
FlushFailIgnored ==
    /\ pc = "flush"
    /\ buf' = <<>>
    /\ pc' = "mark"
    /\ UNCHANGED <<unitVars, drv, variant, roster, exists, disk, status, done, i, page,
                   pdata, row, navs, appended, flushes, disk0, afterComplete>>

\* fout.flush() raises OSError, which leaves main().
FlushFail ==
    /\ pc = "flush"
    /\ \E c \in BOOLEAN : EndRun("OSError", c)

\* done.add(url) and the end of the loop body.
Mark ==
    /\ pc = "mark"
    /\ done' = Marked(variant, done, url)
    /\ i' = i + 1
    /\ pc' = "loop"
    /\ UNCHANGED <<unitVars, drv, variant, roster, exists, disk, buf, status, page, pdata, row,
                   navs, appended, flushes, disk0, afterComplete>>

\* The process is terminated from outside; what the buffer held is lost.
Kill ==
    /\ pc # "idle"
    /\ EndRun("killed", FALSE)

Next ==
    \/ StartRun \/ Resume \/ ResumeFail \/ OpenStore \/ LoginOK \/ LoginFail
    \/ LoopSkip \/ LoopEnter \/ Finish \/ Navigate \/ Scrape \/ ScrapeRaise
    \/ WriteRow \/ WriteRejected \/ WriteFail \/ Flush \/ FlushFail \/ Mark \/ Kill

Spec == Init /\ [][Next]_vars

(***************************************************************************)
(* The progressive scroll loop                                             *)
(* ensure_sections_loaded (details), scroll_full_page (people)             *)
(***************************************************************************)
\* window.scrollBy(0, 600)
ScrollBy == 600

\* Heights are multiples of half a scroll step.
Px(k) == k * (ScrollBy \div 2)

\* window.innerHeight of the browsers modelled.
Inners == {Px(1), Px(2), Px(3)}

\* How a page answers scrolling: "static" never grows; "lazy" grows on a
\* scroll step, at most `more` times; "endless" grows on every scroll step
\* (a feed that loads further entries whenever it is scrolled).
PageKinds == {"static", "lazy", "endless"}

\* What a growing page adds on one scroll step.
Growths == {Px(1), Px(2), Px(3)}

Min(a, b) == IF a <= b THEN a ELSE b

\* The main() variables while a function is studied on its own.
MainIdle ==
    /\ variant = "details"
    /\ roster = <<Entry("ann", "http_u1")>>
    /\ exists = FALSE
    /\ disk = <<>>
    /\ buf = <<>>
    /\ pc = "idle"
    /\ status = "none"
    /\ done = {}
    /\ i = 1
    /\ page = NoPage
    /\ pdata = EmptyDict
    /\ row = EmptyDict
    /\ navs = 0
    /\ appended = 0
    /\ flushes = 0
    /\ disk0 = <<>>
    /\ afterComplete = FALSE
    /\ drv = NoDriver

mainVars == <<variant, roster, exists, disk, buf, pc, status, done, i, page,
              pdata, row, navs, appended, flushes, disk0, afterComplete, drv>>

\* The loop is entered: last = 0, the page at its top.  y is
\* window.pageYOffset, h document.body.scrollHeight.  The loop only compares
\* positions with one another, so y, h and last are kept relative to the
\* top of the viewport as the previous iteration left it; this is what
\* keeps an endless page within finitely many states.
ScrollInit ==
    /\ MainIdle
    /\ parse = NoParse
    /\ conn = NoConn
    /\ norm = NoNorm
    /\ \E kind \in PageKinds, inner \in Inners, k \in 1..MaxScreens, m \in 0..MaxGrow :
          /\ Px(k) >= inner
          /\ (kind = "lazy") = (m > 0)
          /\ scroll = [pc |-> "loop", kind |-> kind, more |-> m, inner |-> inner,
                       y |-> 0, h |-> Px(k), last |-> 0]

\* One pass through the body of the while loop, the page growing by g:
\* the values its two reads return and whether it breaks.
ScrollPass(sc, g) ==
    LET y1    == Min(sc.y + ScrollBy, sc.h - sc.inner)
        h1    == sc.h + g
        seen  == y1 + sc.inner
        total == h1
    IN [y |-> y1, h |-> h1, seen |-> seen, total |-> total,
        brk |-> (seen >= total \/ seen = sc.last)]

\* A growing page loads further content when the scroll has brought the
\* viewport to less than one scroll step from the bottom.
NearBottom(sc) == sc.h - (Min(sc.y + ScrollBy, sc.h - sc.inner) + sc.inner) < ScrollBy

\* What the page may add during the pause after a scroll.
Growth(sc) ==
    CASE sc.kind = "endless" /\ NearBottom(sc) -> Growths
      [] sc.kind = "lazy" /\ sc.more > 0 /\ NearBottom(sc) -> Growths
      [] OTHER -> {0}

\* A pass that ends with last = seen.
ScrollOn ==
    /\ scroll.pc = "loop"
    /\ \E g \in Growth(scroll) :
          LET ps == ScrollPass(scroll, g)
          IN /\ ~ps.brk
             /\ scroll' = [scroll EXCEPT !.y = 0, !.h = ps.h - ps.y,
                                         !.last = ps.seen - ps.y,
                                         !.more = IF g > 0 /\ @ > 0 THEN @ - 1 ELSE @]
    /\ UNCHANGED <<mainVars, parse, conn, norm>>

\* A pass that ends with break.
ScrollBreak ==
    /\ scroll.pc = "loop"
    /\ \E g \in Growth(scroll) :
          LET ps == ScrollPass(scroll, g)
          IN /\ ps.brk
             /\ scroll' = [scroll EXCEPT !.pc = "done", !.y = ps.y, !.h = ps.h]
    /\ UNCHANGED <<mainVars, parse, conn, norm>>

ScrollNext == ScrollOn \/ ScrollBreak

\* The loop runs on: a pass that can be made is made.
SpecScroll == ScrollInit /\ [][ScrollNext]_vars /\ WF_vars(ScrollNext)

(***************************************************************************)
(* Parsing of a vision reply: the text steps of call_vision                *)
(***************************************************************************)
\* JSON texts are written short: "1" is a scalar, an object is "{" then
\* its member values then "}", with whitespace allowed around every value.
\* The backquote of the fences is written "^" in the model's strings.
Fence == "^^^"

StartsWith(s, pre) == Len(s) >= Len(pre) /\ SubSeq(s, 1, Len(pre)) = pre

EndsWith(s, suf) == Len(s) >= Len(suf) /\ SubSeq(s, Len(s) - Len(suf) + 1, Len(s)) = suf

RECURSIVE FindStr(_, _, _)
\* Index of the first occurrence of sub in s at or after position k, or 0.
FindStr(s, sub, k) ==
    IF k + Len(sub) - 1 > Len(s) THEN 0
    ELSE IF SubSeq(s, k, k + Len(sub) - 1) = sub THEN k
    ELSE FindStr(s, sub, k + 1)

RECURSIVE RFind(_, _, _)
\* Index of the last occurrence of the one-character string c in s at or
\* before position k, or 0.
RFind(s, c, k) ==
    IF k < 1 THEN 0
    ELSE IF SubSeq(s, k, k) = c THEN k
    ELSE RFind(s, c, k - 1)

\* [a-zA-Z]
IsLetter(c) == Find("abcdefghijklmnopqrstuvwxyzABCDEFGHIJKLMNOPQRSTUVWXYZ", c, 1) # 0

RECURSIVE SkipWs(_, _)
\* First position at or after k that holds no whitespace.
SkipWs(s, k) ==
    IF k <= Len(s) /\ SubSeq(s, k, k) \in Whitespace THEN SkipWs(s, k + 1) ELSE k

RECURSIVE SkipLetters(_, _)
SkipLetters(s, k) ==
    IF k <= Len(s) /\ IsLetter(SubSeq(s, k, k)) THEN SkipLetters(s, k + 1) ELSE k

RECURSIVE RemoveWs(_)
RemoveWs(s) ==
    IF s = "" THEN ""
    ELSE IF SubSeq(s, 1, 1) \in Whitespace THEN RemoveWs(SubSeq(s, 2, Len(s)))
    ELSE SubSeq(s, 1, 1) \o RemoveWs(SubSeq(s, 2, Len(s)))

RECURSIVE ParseValue(_, _)
RECURSIVE ParseMembers(_, _)
\* The JSON decoder at position k of s: the position after the value that
\* starts there, or 0 if none does.
ParseValue(s, k) ==
    IF k > Len(s) THEN 0
    ELSE IF SubSeq(s, k, k) = "1" THEN k + 1
    ELSE IF SubSeq(s, k, k) = "{" THEN ParseMembers(s, SkipWs(s, k + 1))
    ELSE 0

ParseMembers(s, k) ==
    IF k > Len(s) THEN 0
    ELSE IF SubSeq(s, k, k) = "}" THEN k + 1
    ELSE LET e == ParseValue(s, k)
         IN IF e = 0 THEN 0 ELSE ParseMembers(s, SkipWs(s, e))

\* json.loads(s): ok is FALSE when it raises JSONDecodeError (no value, or
\* text after the value); val is the value, written without whitespace.
json_loads(s) ==
    LET k == SkipWs(s, 1)
        e == ParseValue(s, k)
    IN IF e = 0 \/ SkipWs(s, e) <= Len(s) THEN [ok |-> FALSE, val |-> ""]
       ELSE [ok |-> TRUE, val |-> RemoveWs(SubSeq(s, k, e - 1))]

\* re.sub(r"^<fence>[a-zA-Z]*", "", cleaned)
SubLeadingFence(s) ==
    IF StartsWith(s, Fence) THEN SubSeq(s, SkipLetters(s, Len(Fence) + 1), Len(s)) ELSE s

\* re.sub(r"<fence>$", "", cleaned): $ matches at the end and before a final newline.
SubTrailingFence(s) ==
    IF EndsWith(s, Fence) THEN SubSeq(s, 1, Len(s) - Len(Fence))
    ELSE IF EndsWith(s, Fence \o "\n") THEN SubSeq(s, 1, Len(s) - Len(Fence) - 1) \o "\n"
    ELSE s

\* re.search(r"{.*}", cleaned, flags=re.S): from the first "{" to the last
\* "}" after it; ok is FALSE when there is no match.
SearchBlob(s) ==
    LET a == Find(s, "{", 1)
        b == RFind(s, "}", Len(s))
    IN IF a = 0 \/ b < a THEN [ok |-> FALSE, group |-> ""]
       ELSE [ok |-> TRUE, group |-> SubSeq(s, a, b)]

\* The value call_vision of alumni_details_scraper.py returns for the reply
\* text content; "{}" is also what it returns when every step has failed.
call_vision_text(content) ==
    LET direct  == json_loads(content)
        c0      == Strip(content)
        cleaned == IF StartsWith(c0, Fence)
                   THEN Strip(SubTrailingFence(SubLeadingFence(c0))) ELSE c0
        second  == json_loads(cleaned)
        m       == SearchBlob(cleaned)
        third   == json_loads(m.group)
    IN IF direct.ok THEN direct.val
       ELSE IF second.ok THEN second.val
       ELSE IF m.ok /\ third.ok THEN third.val
       ELSE "{}"

\* txt.split(<fence>)[k], k = 0 or 1, for a txt that holds a fence.
SplitFence(txt, k) ==
    LET a == FindStr(txt, Fence, 1)
        rest == SubSeq(txt, a + Len(Fence), Len(txt))
        b == FindStr(rest, Fence, 1)
    IN IF k = 0 THEN SubSeq(txt, 1, a - 1)
       ELSE IF b = 0 THEN rest ELSE SubSeq(rest, 1, b - 1)

\* The value call_vision of people_alumni_scraper.py returns for the reply
\* text txt.
call_vision_text_people(txt) ==
    LET t1 == IF FindStr(txt, Fence, 1) # 0
              THEN (IF StartsWith(txt, Fence) THEN SplitFence(txt, 1) ELSE SplitFence(txt, 0))
              ELSE txt
        r  == json_loads(t1)
    IN IF r.ok THEN r.val ELSE "{}"

\* Reply texts: lead, opening fence, language tag, body, closing fence, trail.
Leads  == {"", " "}
Opens  == {"", Fence}
Tags   == {"", "json", "JSON"}
Objects == {"{}", "{1}", "{{1} 1}"}
Bodies == Objects \cup {"1", "no", "{1", "{1} {1}"}
Closes == {"", "\n" \o Fence, Fence}
Prose  == {"\nok", " ok."}
Braced == {"\nuse {1} ok", "\n}"}
Trails == {"", "\n"} \cup Braced \cup Prose

Content(t) ==
    t.lead \o t.open \o t.tag \o (IF t.open = "" THEN "" ELSE "\n") \o t.body
    \o t.close \o t.trail

\* A reply has arrived at call_vision of one of the two scripts.
ParseInit ==
    /\ MainIdle
    /\ scroll = NoScroll
    /\ conn = NoConn
    /\ norm = NoNorm
    /\ \E v \in {"details", "people"}, l \in Leads, o \in Opens, g \in Tags, b \in Bodies,
          c \in Closes, t \in Trails :
          /\ (o = "") => (g = "")
          /\ parse = [pc |-> "reply", script |-> v, lead |-> l, open |-> o, tag |-> g,
                      body |-> b, close |-> c, trail |-> t, out |-> ""]

\* call_vision of alumni_details_scraper.py returns.
CallVision ==
    /\ parse.pc = "reply" /\ parse.script = "details"
    /\ parse' = [parse EXCEPT !.pc = "returned", !.out = call_vision_text(Content(parse))]
    /\ UNCHANGED <<mainVars, scroll, conn, norm>>

\* call_vision of people_alumni_scraper.py returns.
CallVisionPeople ==
    /\ parse.pc = "reply" /\ parse.script = "people"
    /\ parse' = [parse EXCEPT !.pc = "returned",
                              !.out = call_vision_text_people(Content(parse))]
    /\ UNCHANGED <<mainVars, scroll, conn, norm>>

ParseNext == CallVision \/ CallVisionPeople

SpecParse == ParseInit /\ [][ParseNext]_vars

(***************************************************************************)
(* clean_and_analyze_alumni.py: _clean_connections                         *)
(***************************************************************************)
\* \d
IsDigit(c) == Find("0123456789", c, 1) # 0

DigitVal(c) == Find("0123456789", c, 1) - 1

RECURSIVE Replace(_, _, _)
\* s.replace(c, new) for a one-character c
Replace(s, c, new) ==
    IF s = "" THEN ""
    ELSE (IF SubSeq(s, 1, 1) = c THEN new ELSE SubSeq(s, 1, 1))
         \o Replace(SubSeq(s, 2, Len(s)), c, new)

RECURSIVE FirstDigit(_, _)
\* Where DIGITS_PATTERN.search starts to match at or after k, or 0.
FirstDigit(s, k) ==
    IF k > Len(s) THEN 0
    ELSE IF IsDigit(SubSeq(s, k, k)) THEN k
    ELSE FirstDigit(s, k + 1)

RECURSIVE DigitsEnd(_, _)
\* The position after the digits that start at k: (\d+) is greedy.
DigitsEnd(s, k) ==
    IF k <= Len(s) /\ IsDigit(SubSeq(s, k, k)) THEN DigitsEnd(s, k + 1) ELSE k

RECURSIVE int(_)
\* int(s) for a string of digits
int(s) ==
    IF s = "" THEN 0
    ELSE 10 * int(SubSeq(s, 1, Len(s) - 1)) + DigitVal(SubSeq(s, Len(s), Len(s)))

None == [none |-> TRUE, n |-> 0]

IntOf(n) == [none |-> FALSE, n |-> n]

\* Mutant: the commas are left in.
clean_connections_commas(val) ==
    LET a == FirstDigit(val, 1)
    IN IF a = 0 THEN None ELSE IntOf(int(SubSeq(val, a, DigitsEnd(val, a) - 1)))

\* _clean_connections(val) for a str val: the cells it is mapped over were
\* read with dtype=str, keep_default_na=False and are never NaN or numbers.
clean_connections(val) ==
    LET t == Replace(val, ",", "")
        a == FirstDigit(t, 1)
    IN IF a = 0 THEN None ELSE IntOf(int(SubSeq(t, a, DigitsEnd(t, a) - 1)))

\* Characters of connections cells.
ConnAlphabet == {"0", "1", "5", ",", "+", "N"}

RECURSIVE Texts(_)
\* The texts of at most n characters.
Texts(n) ==
    IF n = 0 THEN {""}
    ELSE Texts(n - 1) \cup {t \o c : t \in Texts(n - 1), c \in ConnAlphabet}

\* What the scrapers write into the connections column.
ConnCells == Texts(MaxConnLen) \cup {"500+", "1,234", "N/A", "12,345 followers"}

CleanInit ==
    /\ MainIdle
    /\ scroll = NoScroll
    /\ parse = NoParse
    /\ norm = NoNorm
    /\ \E v \in ConnCells : conn = [pc |-> "cell", val |-> v, out |-> None]

\* df["connections"].map(_clean_connections), one cell.
CleanConnections ==
    /\ conn.pc = "cell"
    /\ conn' = [conn EXCEPT !.pc = "cleaned", !.out = clean_connections(conn.val)]
    /\ UNCHANGED <<mainVars, scroll, parse, norm>>

CleanNext == CleanConnections

SpecClean == CleanInit /\ [][CleanNext]_vars

(***************************************************************************)
(* clean_and_analyze_alumni.py: cleaning and child tables                  *)
(***************************************************************************)
\* pd.NA, and the date that is None
NA == "<NA>"

NoDate == [y |-> 0, m |-> 0]

RECURSIVE FindIn(_, _, _)
\* Index of the first character of s at or after k that is in cs, or 0.
FindIn(s, cs, k) ==
    IF k > Len(s) THEN 0
    ELSE IF SubSeq(s, k, k) \in cs THEN k
    ELSE FindIn(s, cs, k + 1)

RECURSIVE Lower(_)
\* s.lower()
Lower(s) ==
    IF s = "" THEN ""
    ELSE LET c == SubSeq(s, 1, 1)
             k == Find("ABCDEFGHIJKLMNOPQRSTUVWXYZ", c, 1)
         IN (IF k = 0 THEN c ELSE SubSeq("abcdefghijklmnopqrstuvwxyz", k, k))
            \o Lower(SubSeq(s, 2, Len(s)))

\* dateutil's parse with default 1900-01-01, on the tokens of the model:
\* month and year, or year alone (January by the default).  An empty token
\* and a bare word raise, which _parse_date turns into None.  What the
\* library makes of any other text is left open: g is either None or a date.
date_parse(token, g) ==
    CASE token = "Jan 2019" -> [y |-> 2019, m |-> 1]
      [] token = "Mar 2022" -> [y |-> 2022, m |-> 3]
      [] token = "Jun 2021" -> [y |-> 2021, m |-> 6]
      [] token = "2019"     -> [y |-> 2019, m |-> 1]
      [] token = "2020"     -> [y |-> 2020, m |-> 1]
      [] token \in {"", "Cola"} -> NoDate
      [] OTHER -> g

_parse_date(token, g) ==
    IF Lower(Strip(token)) \in {"present", "current", "now"} THEN NoDate
    ELSE date_parse(Strip(token), g)

\* re.split(r"[<en dash>-]", range_str, maxsplit=1), each part stripped
_split_date_range(range_str, g) ==
    LET d == FindIn(range_str, {EnDash, "-"}, 1)
    IN IF d = 0 THEN [start |-> _parse_date(range_str, g), end |-> NoDate]
       ELSE [start |-> _parse_date(SubSeq(range_str, 1, d - 1), g),
             end   |-> _parse_date(SubSeq(range_str, d + 1, Len(range_str)), g)]

RECURSIVE Split(_, _)
\* s.split(sep)
Split(s, sep) ==
    LET k == FindStr(s, sep, 1)
    IN IF k = 0 THEN <<s>>
       ELSE <<SubSeq(s, 1, k - 1)>> \o Split(SubSeq(s, k + Len(sep), Len(s)), sep)

\* Mutant: blank items are kept.
CellItemsBlanks(cell) ==
    LET parts == Split(cell, "; ") IN [k \in DOMAIN parts |-> Strip(parts[k])]

\* [i.strip() for i in str(cell).split("; ") if i.strip()]; nothing for a
\* cell that is NA or blank.
CellItems(cell) ==
    IF cell = NA \/ Strip(cell) = "" THEN <<>>
    ELSE LET parts == Split(cell, "; ")
             kept  == SelectSeq(parts, LAMBDA x : Strip(x) # "")
         IN [k \in DOMAIN kept |-> Strip(kept[k])]

\* re.match of the title/company/dates pattern on an item: the lazy title
\* ends before the first "@" that has a dash after it, the lazy company
\* before the first dash after that "@"; none when no "@" is followed by
\* a dash.  The groups are stripped and the dates split.
ExpMatch(item, g) ==
    LET at   == Find(item, "@", 1)
        dash == IF at = 0 THEN 0 ELSE FindIn(item, {EnDash, "-"}, at + 1)
        rng  == _split_date_range(Strip(SubSeq(item, dash + 1, Len(item))), g)
    IN IF dash = 0
       THEN [title |-> item, company |-> item, start_date |-> NoDate, end_date |-> NoDate]
       ELSE [title |-> Strip(SubSeq(item, 1, at - 1)),
             company |-> Strip(SubSeq(item, at + 1, dash - 1)),
             start_date |-> rng.start, end_date |-> rng.end]

RECURSIVE _parse_experience(_, _)
\* The experience table: for every row of df in turn, one row per item of
\* its experience cell, numbered from 1.
_parse_experience(df, g) ==
    IF df = <<>> THEN <<>>
    ELSE LET items == CellItems(Head(df).experience)
         IN [k \in DOMAIN items |->
               [linkedin_profile |-> Head(df).linkedin_profile, seq |-> k]
               @@ ExpMatch(items[k], g)]
            \o _parse_experience(Tail(df), g)

RECURSIVE _explode_series(_, _)
\* A child table: for every row of df in turn, one row per item of its
\* cell in column col, numbered from 1.
_explode_series(df, col) ==
    IF df = <<>> THEN <<>>
    ELSE LET items == CellItems(Head(df)[col])
         IN [k \in DOMAIN items |->
               [linkedin_profile |-> Head(df).linkedin_profile, seq |-> k,
                value |-> items[k]]]
            \o _explode_series(Tail(df), col)

\* Mutant: the last row of each profile is kept.
drop_duplicates_last(rows) ==
    SelectSeq([k \in DOMAIN rows |-> [r |-> rows[k], k |-> k]],
              LAMBDA x : \A j \in DOMAIN rows :
                  j > x.k => rows[j].linkedin_profile # x.r.linkedin_profile)

\* df.drop_duplicates(subset="linkedin_profile", keep="first"); each row
\* keeps its place k in the file.
drop_duplicates(rows) ==
    SelectSeq([k \in DOMAIN rows |-> [r |-> rows[k], k |-> k]],
              LAMBDA x : \A j \in DOMAIN rows :
                  j < x.k => rows[j].linkedin_profile # x.r.linkedin_profile)

\* load_and_clean(): every cell has its newlines replaced and is stripped,
\* duplicates are dropped, the rows are sorted by last name (the model has
\* two), and empty cells become NA.  Each row keeps the place it had in the file as src.
load_and_clean(raw) ==
    LET tidy(c) == Strip(Replace(c, "\n", " "))
        stripped == [k \in DOMAIN raw |-> [f \in DOMAIN raw[k] |-> tidy(raw[k][f])]]
        kept == drop_duplicates(stripped)
        of(n) == SelectSeq(kept, LAMBDA x : x.r.lastname = n)
        sorted == of("") \o of("Adams") \o of("Young")
        na(c) == IF c = "" THEN NA ELSE c
    IN [k \in DOMAIN sorted |->
          [f \in DOMAIN sorted[k].r |-> na(sorted[k].r[f])] @@ [src |-> sorted[k].k]]

\* An experience item as the extraction prompt asks for it.
MkItem(title, company, sep, dates) ==
    title \o " @ " \o company \o " " \o sep \o " " \o dates

\* The parts the experience items of the model are made of; a date range
\* comes with the dates it names.
ExpForms ==
    [ title : {"Senior Engineer", "Intern"},
      company : {"Acme Corp", "Coca-Cola"},
      dates : { [txt |-> "Jan 2019-Mar 2022", start |-> [y |-> 2019, m |-> 1], end |-> [y |-> 2022, m |-> 3]],
                [txt |-> "Jun 2021-Present", start |-> [y |-> 2021, m |-> 6], end |-> NoDate],
                [txt |-> "2019-NOW", start |-> [y |-> 2019, m |-> 1], end |-> NoDate] } ]

\* Items in the form asked for, with a plain hyphen as separator, without
\* dates, and without company.
ExpItems ==
    { MkItem(f.title, f.company, EnDash, f.dates.txt) : f \in ExpForms }
    \cup { MkItem("Intern", "Acme Corp", "-", "2019-2020"), "Intern @ Acme Corp", "Freelance" }

\* A store row: a profile, the name that goes with it, and the two list
\* columns as the scrapers write them, items joined with "; ".
RawRow(link, exp, edu) ==
    [linkedin_profile |-> link,
     lastname |-> IF Strip(link) = "u1" THEN "Young" ELSE "Adams",
     experience |-> exp, education |-> edu]

\* Rows with one list column filled.
RawRows ==
    { RawRow(l, e, "") : l \in {"u1", "u2", " u1"},
        e \in ExpItems \cup {"", "Intern @ Acme Corp ~ 2019-2020; Freelance"} }
    \cup { RawRow(l, "", d) : l \in {"u1", "u2", " u1"},
        d \in {" ", "MIT", "MIT; NYU", "MIT; ; NYU", "MIT;", "; MIT\n"} }

\* The store as pd.read_csv(dtype=str, keep_default_na=False) returns it:
\* any row first, then rows with both list columns or one.
NormInit ==
    /\ MainIdle
    /\ scroll = NoScroll
    /\ parse = NoParse
    /\ conn = NoConn
    /\ \/ norm = [pc |-> "raw", raw |-> <<>>]
       \/ \E n \in 1..MaxRaw, first \in RawRows : \E rest \in [2..n -> { RawRow(l, "Intern @ Acme Corp ~ 2019-2020; Freelance", d) :
                                      l \in {"u1", "u2", " u1"}, d \in {"MIT; NYU", ""} }] :
             norm = [pc |-> "raw", raw |-> [k \in 1..n |-> IF k = 1 THEN first ELSE rest[k]]]

LoadAndClean ==
    /\ norm.pc = "raw"
    /\ norm' = [pc |-> "clean", raw |-> norm.raw, clean |-> load_and_clean(norm.raw)]
    /\ UNCHANGED <<mainVars, scroll, parse, conn>>

\* main(): the experience table and an exploded list table from the clean
\* rows.  g is what the date library makes of a text it was not written
\* for: None or a date.
ChildTables ==
    /\ norm.pc = "clean"
    /\ \E g \in {NoDate, [y |-> 2019, m |-> 1]} :
         norm' = [pc |-> "tables", raw |-> norm.raw, clean |-> norm.clean,
                  exp |-> _parse_experience(norm.clean, g),
                  edu |-> _explode_series(norm.clean, "education")]
    /\ UNCHANGED <<mainVars, scroll, parse, conn>>

NormNext == LoadAndClean \/ ChildTables

SpecNorm == NormInit /\ [][NormNext]_vars

(***************************************************************************)
(* Properties                                                              *)
(***************************************************************************)
\* Rows the store holds, and the profile identifiers among them.
StoreRows == RowLines(disk)

StoreUrls == {StoreRows[k].linkedin_profile : k \in DOMAIN StoreRows}

\* Rows this run has added to the store.
AddedRows == Len(StoreRows) - Len(RowLines(disk0))

\* The extraction cells of the row last handed to the writer.
ExtractionCols == DOMAIN row \ RosterCols

\* The row of the current page has been handed to the writer.
RowOut == pc \in {"flush", "mark", "loop"} /\ page.nav # "none"

\* C1: every profile identifier present in the store appears in exactly
\* one row of it, whatever the roster and however the runs were interrupted.
C1_AtMostOnce ==
    \A j, k \in DOMAIN StoreRows :
        StoreRows[j].linkedin_profile = StoreRows[k].linkedin_profile => j = k

\* C2: whenever the loop is at its head, and when a run has ended on an
\* exception raised by the per-profile work, every navigation issued in the
\* run has exactly one row in the store.
C2_OneRowPerStarted ==
    (pc = "loop" \/ (pc = "idle" /\ status \in {"complete", "TypeError", "ValueError",
                                                 "WebDriverException", "TimeoutException"}))
        => AddedRows = navs

\* C3: a run that follows a complete run navigates to no profile and appends
\* no row; the store's row count stays what the run found.
C3_ResumptionIdempotent ==
    afterComplete => navs = 0 /\ appended = 0 /\ AddedRows = 0

\* C3 witness: the second run has walked past a row of the roster that the
\* store already holds.
C3_Witness ==
    afterComplete /\ pc = "loop" /\ i > 1 /\ src[i - 1].linkedin_profile \in StoreUrls

\* C4: a run that got past login, whose store writes succeeded and that was
\* not killed has ended with the roster exhausted: every roster row with a valid
\* identifier has a row in the store.
C4_ForwardProgress ==
    (pc = "idle" /\ status \notin {"none", "killed", "EmptyDataError", "LoginTimeout", "OSError"})
        => /\ status = "complete"
           /\ \A k \in DOMAIN roster :
                StartsWithHttp(roster[k].linkedin_profile)
                    => roster[k].linkedin_profile \in StoreUrls

\* C5: when a navigation is about to be issued, every row written so far in
\* the run is in the store and none is left in the buffer; and a kill leaves
\* in the store at least the rows whose flush returned.
C5_DurablePrefix ==
    /\ pc \in {"loop", "nav"} => RowLines(buf) = <<>> /\ AddedRows = appended
    /\ status = "killed" => AddedRows >= flushes
    /\ \A k \in DOMAIN disk : disk[k].whole

\* C5 witness: the second navigation of a run is about to be issued.
C5_Witness == pc = "nav" /\ appended = 1 /\ flushes = 1 /\ AddedRows = 1

\* C6: no identifier counts as processed on the strength of a torn line:
\* every member of the processed set has a whole row in the store.
C6_NoTornRecord ==
    \A u \in done :
        \E k \in DOMAIN StoreRows :
            StoreRows[k].linkedin_profile = u /\ StoreRows[k].whole

\* C6 witness: a run was killed between the write of a row and its flush,
\* and the row had reached the file.
C6_Witness ==
    /\ pc = "idle" /\ status = "killed"
    /\ appended = flushes + 1
    /\ AddedRows = appended

\* C7 (details and people scripts): a header wait that times out ends no run;
\* the row written for the profile has every extraction cell empty, the
\* identifier joins the processed set and the loop is back at its head.
C7_LoadFailureNonFatal ==
    variant \in {"details", "people"} =>
        /\ status # "TimeoutException"
        /\ (RowOut /\ page.head = "timeout") =>
              /\ \A c \in ExtractionCols : row[c] = ""
              /\ ExtractionCols = fieldnames(variant) \ RosterCols
              /\ pc = "loop" =>
                    /\ src[i - 1].linkedin_profile \in done
                    /\ row["linkedin_profile"] = src[i - 1].linkedin_profile
                    /\ AddedRows = navs

\* C7 witness: after a load timeout the loop stands before a further row
\* that it will take up.
C7_Witness ==
    /\ variant = "details" /\ page.head = "timeout" /\ pc = "loop"
    /\ i = 2 /\ Len(src) >= 2 /\ ~Skip(variant, url, done)

\* C8: no run ends on an exception that the shape of a vision reply caused.
C8_VisionNeverFatal == status \notin {"TypeError", "ValueError"}

\* The page's service fails to parse on every call.
NeverParses == page.nav = "ok" /\ page.head = "ok" /\ page.hv = "garbage" /\ page.sv = "garbage"

C10_StructuralWins ==
    (RowOut /\ page.hv = "withmail" /\ page.contact = "mail" /\ page.ask) =>
        row["email"] = StructuralEmail /\ row["profile_pic"] = StructuralPic

\* C11: the scroll loop ends on every page, the page that grows on every
\* scroll step included.
C11_ScrollTerminates == <>(scroll.pc = "done")

\* C12: a reply made of an opening fence with a language tag, one JSON
\* object, the closing fence and, possibly, prose after it is parsed into
\* that object.
C12_FencedObjectParsed ==
    (/\ parse.pc = "returned"
     /\ parse.lead = "" /\ parse.open = Fence /\ parse.tag # ""
     /\ parse.body \in Objects
     /\ parse.close = "\n" \o Fence
     /\ parse.trail \in {""} \cup Prose)
        => parse.out = RemoveWs(parse.body)

\* The page shows a photo and its contact lookup fails.
EmailLookupFails ==
    /\ page.nav = "ok" /\ page.head = "ok" /\ page.ask
    /\ page.pic # ""
    /\ page.hv \in {"garbage", "object"}
    /\ page.contact \in {"nolink", "modaltimeout", "intercepted"}

\* C13: when the photo lookup finds a URL and the email lookup fails, the
\* row carries the photo URL, its email cell is empty unless a repeated
\* click got through, and its vision cells are what they are on a page
\* without contact control.
C13_LookupsIndependent ==
    (RowOut /\ EmailLookupFails) =>
        /\ row["profile_pic"] = page.pic
        /\ page.contact # "intercepted" => row["email"] = ""
        /\ LET plain == Extract(variant, [page EXCEPT !.contact = "nolink"]).data
           IN \A c \in (HeaderCols \cup ListCols) \cap DOMAIN plain :
                 row[c] = Cell(plain[c])

\* C14: when the per-profile work has returned, the contact modal is closed.
C14_ModalNeverLeftOpen ==
    pc \in {"write", "flush", "mark", "loop"} => ~drv.modal

\* C15: a run that met a store write or flush failure has ended at that
\* profile: every earlier navigation of the run was flushed, the failed
\* one was not, and the statement that adds to the processed set is reached
\* only after a flush that returned.
C15_StoreFailureFatal ==
    /\ status = "OSError" =>
          /\ pc = "idle"
          /\ navs >= 1 /\ flushes = navs - 1
          /\ appended \in {navs - 1, navs}
    /\ pc = "mark" => flushes = navs /\ appended = navs

\* C15 witness: the flush of the first profile's row failed while a second
\* roster row with another valid identifier was still to come.
C15_Witness ==
    /\ status = "OSError" /\ appended = 1 /\ navs = 1
    /\ variant = "details" /\ Len(roster) = 2 /\ RowLines(disk0) = <<>>
    /\ roster[1].linkedin_profile = "http_u1" /\ roster[2].linkedin_profile = "http_u2"

\* C16: a profile is navigated to only in a logged-in session, and a run
\* whose login failed has ended with no navigation and no row appended.
C16_LoginFirst ==
    /\ pc \in {"nav", "scrape", "write", "flush", "mark"} => drv.authed
    /\ (pc # "idle" /\ navs > 0) => drv.authed
    /\ status = "LoginTimeout" => pc = "idle" /\ navs = 0 /\ appended = 0 /\ AddedRows = 0

\* C16 witness: the login failed with a valid, unprocessed identifier first
\* in the roster.
C16_Witness ==
    /\ status = "LoginTimeout" /\ exists
    /\ StartsWithHttp(roster[1].linkedin_profile) /\ StoreUrls = {}

\* C17: the loop navigates to no roster row whose identifier is absent, the
\* sentinel or no URL, and the store holds no row for such an identifier.
C17_InvalidNeverVisited ==
    /\ pc \in {"nav", "scrape", "write", "flush", "mark"} => StartsWithHttp(url)
    /\ \A u \in StoreUrls : StartsWithHttp(u)

\* C18: what the store file holds, and what it will hold once the buffer
\* is written out, begins with the header and has no header after it.
C18_HeaderOnce ==
    LET all == disk \o buf
    IN /\ all # <<>> => all[1] = Header /\ \A k \in 2..Len(all) : all[k].kind = "row"
       /\ disk # <<>> => disk[1] = Header

\* C18 witness: a run has opened a store that already held a row.
C18_Witness == pc = "login" /\ RowLines(disk0) # <<>> /\ buf = <<>>

RECURSIVE InRosterOrder(_, _)
\* The lines are the roster cells of rows of src taken in increasing index,
\* from index k on.
InRosterOrder(lines, k) ==
    \/ lines = <<>>
    \/ \E j \in k..Len(src) :
          /\ lines[1].firstname = src[j].firstname
          /\ lines[1].linkedin_profile = src[j].linkedin_profile
          /\ InRosterOrder(Tail(lines), j + 1)

\* C19: the store is what the run found, followed by the rows the run has
\* appended, which are in roster order.
C19_AppendOnly ==
    /\ Len(disk) >= Len(disk0)
    /\ SubSeq(disk, 1, Len(disk0)) = disk0
    /\ InRosterOrder(RowLines(SubSeq(disk \o buf, Len(disk0) + 1, Len(disk) + Len(buf))), 1)

\* C19 witness: a run that found a row in the store has added another.
C19_Witness == RowLines(disk0) # <<>> /\ AddedRows = 1 /\ pc = "mark"

RECURSIVE RunValue(_, _, _)
\* The number spelled by the digits of s from position k on, commas passed
\* over, up to the first character that is neither digit nor comma.
RunValue(s, k, acc) ==
    IF k > Len(s) THEN acc
    ELSE IF SubSeq(s, k, k) = "," THEN RunValue(s, k + 1, acc)
    ELSE IF IsDigit(SubSeq(s, k, k)) THEN RunValue(s, k + 1, 10 * acc + DigitVal(SubSeq(s, k, k)))
    ELSE acc

\* C20: a cleaned connections cell is null when the cell holds no digit,
\* and otherwise the number spelled by its first run of digits, commas
\* disregarded; "500+" gives 500, "1,234" gives 1234, "" and "N/A" give null.
C20_FirstDigitRun ==
    conn.pc = "cleaned" =>
        LET v == conn.val
            digits == {k \in 1..Len(v) : IsDigit(SubSeq(v, k, k))}
        IN /\ digits = {} => conn.out = None
           /\ digits # {} =>
                 /\ ~conn.out.none
                 /\ \E a \in digits :
                       /\ \A k \in digits : a <= k
                       /\ conn.out.n = RunValue(v, a, 0)
           /\ v = "500+" => conn.out = IntOf(500)
           /\ v = "1,234" => conn.out = IntOf(1234)
           /\ v \in {"", "N/A"} => conn.out = None

\* C20 witness: the cell "1,234" has been cleaned to 1234.
C20_Witness == conn.pc = "cleaned" /\ conn.val = "1,234" /\ conn.out = IntOf(1234)

\* C24 (details script): an experience item that does not have the
\* "Title @ Company ~ Dates" shape stops nothing: the profile's work raises
\* nothing, the experience cell of the row is filled, the pairs of the other
\* items are filled from them, and the item's own pair is as the header call
\* left it.
C24_PositionalPairs ==
    (variant = "details" /\ page.nav = "ok" /\ page.head = "ok"
     /\ page.hv = page.sv /\ page.sv \in {"noat", "dictitem"}) =>
        /\ pc = "scrape" => Raised = "none"
        /\ RowOut =>
              /\ row["experience"] # ""
              /\ page.sv = "noat" =>
                    /\ row["current_title"] = "H" /\ row["current_company"] = "H"
                    /\ row["second_title"] = "Dev" /\ row["second_company"] = "Bolt"
              /\ page.sv = "dictitem" =>
                    /\ row["current_title"] = "Eng" /\ row["current_company"] = "Acme"
                    /\ row["second_title"] = "H" /\ row["second_company"] = "H"

\* C25: no value of the dict returned for a profile is a list: every list
\* of a parsed payload was joined before the merge.
C25_ListsFlattened ==
    pc = "write" => \A k \in DOMAIN pdata : pdata[k].t # "list"

\* C26 (details script): a reply in which a JSON object is followed by text
\* that holds a further brace-delimited span, or a stray closing brace, is
\* parsed into that first object.
C26_FirstBalancedSpan ==
    (/\ parse.pc = "returned" /\ parse.script = "details"
     /\ parse.body \in Objects
     /\ parse.trail \in Braced)
        => parse.out = RemoveWs(parse.body)

\* C28: whenever the loop is at its head, the processed set is the set of
\* profile identifiers that have a row in the store.
C28_ProcessedSetIsStore == pc = "loop" => done = StoreUrls

\* C30: no run ends on the read-back of a store file that holds nothing.
C30_EmptyStoreStarts == status # "EmptyDataError"

\* The contact modal is open after the first k of the steps st.
ModalOpenAfter(st, k) ==
    \E j \in 1..k : st[j] = "open" /\ \A m \in (j + 1)..k : st[m] # "close"

\* C29: in the per-profile work every screenshot comes before the first
\* click on the contact control and is taken with the modal closed; the
\* modal state the work leaves is the one its steps end in.
C29_ShotsBeforeContact ==
    (pc \in {"scrape", "write"} /\ page.nav = "ok") =>
        LET st == Steps(variant, page)
        IN /\ \A k \in DOMAIN st :
                 st[k] = "shot" =>
                    /\ ~ModalOpenAfter(st, k)
                    /\ \A j \in 1..k : st[j] # "click"
           /\ pc = "write" => drv.modal = ModalOpenAfter(st, Len(st))

\* C29 witness: a profile's work has taken screenshots and has opened and
\* closed the contact modal.
C29_Witness ==
    /\ pc = "write" /\ page.nav = "ok" /\ page.head = "ok" /\ page.contact = "mail"
    /\ variant = "people"
    /\ \E j, k \in DOMAIN Steps(variant, page) :
          Steps(variant, page)[j] = "shot" /\ Steps(variant, page)[k] = "open"

\* The identifier of store row k as the cleaning reads it.
RawId(k) == Strip(Replace(norm.raw[k].linkedin_profile, "\n", " "))

\* C22: after cleaning, no two rows carry the same profile identifier, every
\* identifier of the store is present, and the row kept for an identifier
\* is the first store row with it: it has that row's place and its cells.
C22_DedupKeepsFirst ==
    norm.pc \in {"clean", "tables"} =>
        LET c == norm.clean
            cell(x) == LET t == Strip(Replace(x, "\n", " ")) IN IF t = "" THEN NA ELSE t
        IN /\ \A a, b \in DOMAIN c :
                a # b => c[a].linkedin_profile # c[b].linkedin_profile
           /\ \A k \in DOMAIN norm.raw :
                \E a \in DOMAIN c : c[a].linkedin_profile = RawId(k)
           /\ \A a \in DOMAIN c :
                LET k == c[a].src
                IN /\ k \in DOMAIN norm.raw
                   /\ RawId(k) = c[a].linkedin_profile
                   /\ \A j \in 1..(k - 1) : RawId(j) # RawId(k)
                   /\ c[a].experience = cell(norm.raw[k].experience)
                   /\ c[a].education = cell(norm.raw[k].education)

\* A store with two different rows of one profile has been cleaned.
C22_Witness ==
    /\ norm.pc = "clean"
    /\ Len(norm.clean) < Len(norm.raw)
    /\ \E j, k \in DOMAIN norm.raw :
         /\ j < k
         /\ RawId(j) = RawId(k)
         /\ norm.raw[j].linkedin_profile # norm.raw[k].linkedin_profile
         /\ norm.raw[j].experience # norm.raw[k].experience

\* The non-blank items of a "; "-joined cell, stripped, in their order:
\* the pieces between the places where "; " stands.
Pieces(c) ==
    IF c = NA THEN <<>>
    ELSE LET cuts == {p \in 1..(Len(c) - 1) : SubSeq(c, p, p + 1) = "; "}
             starts == {1} \cup {p + 2 : p \in cuts}
             stop(a) == IF \E p \in cuts : p >= a
                        THEN (CHOOSE p \in cuts : p >= a /\ \A q \in cuts : q >= a => p <= q) - 1
                        ELSE Len(c)
             piece(a) == Strip(SubSeq(c, a, stop(a)))
             full == {a \in starts : piece(a) # ""}
         IN [k \in 1..Cardinality(full) |->
               piece(CHOOSE a \in full : Cardinality({b \in full : b < a}) = k - 1)]

\* The rows of a child table that belong to one profile, in table order.
ChildOf(table, link) == SelectSeq(table, LAMBDA x : x.linkedin_profile = link)

\* C23: in each child table the rows of a profile are the non-blank items
\* of its cell, in order and numbered 1..k; every row belongs to a clean
\* profile; no (profile, seq) pair occurs twice; an empty cell gives no row.
C23_ListExplosion ==
    norm.pc = "tables" =>
        /\ \A k \in DOMAIN norm.clean :
             LET r == norm.clean[k]
                 edu == ChildOf(norm.edu, r.linkedin_profile)
                 exp == ChildOf(norm.exp, r.linkedin_profile)
             IN /\ Len(edu) = Len(Pieces(r.education))
                /\ \A n \in DOMAIN edu :
                      edu[n].seq = n /\ edu[n].value = Pieces(r.education)[n]
                /\ Len(exp) = Len(Pieces(r.experience))
                /\ \A n \in DOMAIN exp :
                      /\ exp[n].seq = n
                      /\ Find(Pieces(r.experience)[n], "@", 1) = 0
                            => exp[n].title = Pieces(r.experience)[n]
                /\ r.education = NA => edu = <<>>
                /\ r.experience = NA => exp = <<>>
        /\ \A t \in {norm.edu, norm.exp} :
             /\ \A a \in DOMAIN t :
                  \E k \in DOMAIN norm.clean :
                      norm.clean[k].linkedin_profile = t[a].linkedin_profile
             /\ \A a, b \in DOMAIN t :
                  a # b => <<t[a].linkedin_profile, t[a].seq>> # <<t[b].linkedin_profile, t[b].seq>>

\* The tables were built from two profiles, one whose education cell has a
\* blank item between two schools, one with two experience items.
C23_Witness ==
    /\ norm.pc = "tables"
    /\ \E j, k \in DOMAIN norm.clean :
         /\ j # k
         /\ norm.clean[j].education = "MIT; ; NYU"
         /\ Len(ChildOf(norm.edu, norm.clean[j].linkedin_profile)) = 2
         /\ Len(ChildOf(norm.exp, norm.clean[k].linkedin_profile)) = 2
         /\ Len(ChildOf(norm.exp, norm.clean[j].linkedin_profile)) = 0

\* C21: a profile whose experience cell is one item "Title @ Company
\* <en dash> Start-End" gets one experience row, with that title, that
\* company, the start date, and the end date or none for an open end.
C21_ExperienceDecomposed ==
    norm.pc = "tables" =>
        \A f \in ExpForms : \A k \in DOMAIN norm.clean :
            norm.clean[k].experience = MkItem(f.title, f.company, EnDash, f.dates.txt) =>
                LET exp == ChildOf(norm.exp, norm.clean[k].linkedin_profile)
                IN /\ Len(exp) = 1
                   /\ exp[1].title = f.title
                   /\ exp[1].company = f.company
                   /\ exp[1].start_date = f.dates.start
                   /\ exp[1].end_date = f.dates.end

\* C27: for every experience item the collection loop splits into a title
\* and a company, the experience table holds the same title and company.
C27_SameDecomposition ==
    norm.pc = "tables" =>
        \A k \in DOMAIN norm.clean :
            LET items == Pieces(norm.clean[k].experience)
                exp == ChildOf(norm.exp, norm.clean[k].linkedin_profile)
            IN \A n \in DOMAIN items :
                 SplitItem(items[n]).ok =>
                     /\ n \in DOMAIN exp
                     /\ exp[n].title = SplitItem(items[n]).title
                     /\ exp[n].company = SplitItem(items[n]).company
====
